---- MODULE Spec2Model ----
(***************************************************************************)
(* Chat view and request handler of app/routes/index.tsx.                  *)
(*                                                                         *)
(* The model follows one browser tab: the React state of IndexPage         *)
(* (chatHistory, sessionId), the values its hooks return (useActionData,   *)
(* useNavigation, useLocation), the browser's history stack, the textarea  *)
(* of the form and the requests travelling to the server-side action.      *)
(*                                                                         *)
(* Text is a sequence of characters, so that trimming and lengths are      *)
(* computed; the empty sequence stands for "" and for an absent field      *)
(* (both are falsy in the source's tests).                                 *)
(***************************************************************************)
EXTENDS Integers, Sequences, FiniteSets, TLC

VARIABLES
    chatHistory,   \* useState<ChatHistoryProps[]>, line 116
    sessionId,     \* useState<string | null>, line 117
    data,          \* useActionData(), line 110
    navigation,    \* useNavigation().state, line 114
    entries,       \* the browser's history stack: the state of each entry
    idx,           \* the current entry; useLocation() is entries[idx]
    pendingNav,    \* the navigate("/", {state}) of line 291, not yet committed
    requests,      \* requests sent to the action, not yet answered
    result,        \* the action's returned value, on its way to the view
    textarea,      \* the textarea's value and rows (inputRef.current)
    lastOp,        \* history: the last operation that acted
    served,        \* history: the request and service outcome behind result
    submitted,     \* history: what the last submission found and sent
    integrated,    \* history: what the last integrated result was and found
    failedSession  \* history: the identifier the last failed request carried

vars == << chatHistory, sessionId, data, navigation, entries, idx, pendingNav,
           requests, result, textarea, lastOp, served, submitted, integrated,
           failedSession >>

----------------------------------------------------------------------------
(* Bounds of the model *)

MaxTurns == 6        \* turns a transcript may hold before submitting stops
MaxHistory == 4      \* entries of the browser's history stack
MaxScrollHeight == 9 \* largest measured scrollHeight, in pixels

(* Program constants *)

minTextareaRows == 1
maxTextareaRows == 3
minLength == 2

\* The value the rows property takes when it is assigned a number that is not
\* positive (rows reflects the attribute "limited to only positive numbers
\* with fallback", HTML Standard, the textarea element).
DefaultRows == 2

----------------------------------------------------------------------------
(* Inputs *)

\* Values the user can leave in the textarea.
Messages ==
    { << >>,
      << "a" >>,
      << " ", "a", " " >>,
      << "a", "b", "c" >>,
      << " ", "a", "b", "c" >> }

\* Texts the external service can answer with; << >> is an absent output text.
Answers == { << >>, << "o", "k" >> }

\* Messages of the errors the external service call can throw.
ErrorMessages == { << >>, << "e" >> }

\* Session identifiers the external service can issue; "" is none.
SessionIds == { "s1", "s2" }

Null == "null"

FallbackError == << "S", "o", "m", "e", "t", "h", "i", "n", "g" >>

----------------------------------------------------------------------------
(* String.prototype.trim, as used on line 202 *)

IsSpace(c) == c = " "

RECURSIVE TrimStart(_)
TrimStart(s) ==
    IF s = << >> THEN << >>
    ELSE IF IsSpace(Head(s)) THEN TrimStart(Tail(s))
    ELSE s

RECURSIVE TrimEnd(_)
TrimEnd(s) ==
    IF s = << >> THEN << >>
    ELSE IF IsSpace(s[Len(s)]) THEN TrimEnd(SubSeq(s, 1, Len(s) - 1))
    ELSE s

trim(s) == TrimEnd(TrimStart(s))

----------------------------------------------------------------------------
(* ChatHistoryProps, lines 29-33 *)

UserTurn(content) == [content |-> content, role |-> "user", error |-> FALSE]

AssistantTurn(content) ==
    [content |-> content, role |-> "assistant", error |-> FALSE]

ErrorTurn(content) ==
    [content |-> content, role |-> "assistant", error |-> TRUE]

(* ReturnedDataProps, lines 22-27; present = FALSE is useActionData()'s
   undefined *)

NoData ==
    [present |-> FALSE, message |-> << >>, answer |-> << >>,
     error |-> << >>, sessionId |-> ""]

(* location.state: absent, or an object holding a chatHistory *)

NoState == [hasState |-> FALSE, chatHistory |-> << >>]

StateWith(history) == [hasState |-> TRUE, chatHistory |-> history]

NoNav == [pending |-> FALSE, state |-> NoState]

location == entries[idx]

----------------------------------------------------------------------------
(* The server-side action, lines 38-104 *)

\* What the call of line 87 does: it resolves with an output text and a
\* session identifier (either may be absent), or it throws an error.
ServiceOutcomes ==
    [ok : {TRUE}, text : Answers, sid : SessionIds \cup {""},
     errorMessage : {<< >>}]
    \cup
    [ok : {FALSE}, text : {<< >>}, sid : {""}, errorMessage : ErrorMessages]

actionDropsSession(req, outcome) ==
    IF outcome.ok
    THEN [present |-> TRUE, message |-> req.message, answer |-> outcome.text,
          error |-> << >>,
          sessionId |-> IF outcome.sid # "" THEN outcome.sid ELSE req.sessionId]
    ELSE [present |-> TRUE, message |-> req.message, answer |-> << >>,
          error |-> IF outcome.errorMessage # << >>
                    THEN outcome.errorMessage ELSE FallbackError,
          sessionId |-> ""]

action(req, outcome) ==
    IF outcome.ok
    THEN [present |-> TRUE, message |-> req.message, answer |-> outcome.text,
          error |-> << >>,
          sessionId |-> IF outcome.sid # "" THEN outcome.sid ELSE req.sessionId]
    ELSE [present |-> TRUE, message |-> req.message, answer |-> << >>,
          error |-> IF outcome.errorMessage # << >>
                    THEN outcome.errorMessage ELSE FallbackError,
          sessionId |-> req.sessionId]

----------------------------------------------------------------------------
(* The view: IndexPage, lines 106-418 *)

isSubmittingWhileLoading == navigation = "loading"

isSubmitting == navigation = "submitting"

\* Assignment to inputRef.current.rows (lines 136, 152, 155).
SetRows(v) == IF v >= 1 THEN v ELSE DefaultRows

\* The rows handleTextareaChange leaves, lines 136-156.
RowsUnclamped(scrollHeightPx, lineHeight, paddingTop, paddingBottom) ==
    LET scrollHeight == scrollHeightPx - paddingTop - paddingBottom
        currentRows == scrollHeight \div lineHeight
    IN  SetRows(currentRows)

RowsAfterChange(scrollHeightPx, lineHeight, paddingTop, paddingBottom) ==
    LET scrollHeight == scrollHeightPx - paddingTop - paddingBottom
        currentRows == scrollHeight \div lineHeight
    IN  IF currentRows >= maxTextareaRows
        THEN SetRows(maxTextareaRows)
        ELSE SetRows(currentRows)

pushChatHistory(prevState, turn) == Append(prevState, turn)

saveUserMessageTwice(prevState, content) ==
    pushChatHistory(pushChatHistory(prevState, UserTurn(content)),
                    UserTurn(content))

saveUserMessage(prevState, content) ==
    pushChatHistory(prevState, UserTurn(content))

\* The response effect, lines 271-298: the turn it pushes ...
ResponseEffect(prevState, d) ==
    IF d.error # << >> THEN pushChatHistory(prevState, ErrorTurn(d.error))
    ELSE IF d.answer # << >>
         THEN pushChatHistory(prevState, AssistantTurn(d.answer))
         ELSE prevState

\* ... and the navigation it asks for. rendered is the chatHistory of the
\* render whose effect this is; a location state holds nothing but a
\* chatHistory, so {...location.state, chatHistory: h} is StateWith(h).
ResponseNavigateFresh(rendered, d) ==
    IF d.error = << >> /\ d.answer # << >>
    THEN [pending |-> TRUE,
          state |-> StateWith(rendered \o
                              << AssistantTurn(d.answer),
                                 AssistantTurn(d.answer) >>)]
    ELSE NoNav

ResponseNavigate(rendered, d) ==
    IF d.error = << >> /\ d.answer # << >>
    THEN [pending |-> TRUE,
          state |-> StateWith(Append(rendered, AssistantTurn(d.answer)))]
    ELSE NoNav

ClearEffectKeeps(prevState, loc) == prevState

\* The clear-on-no-state effect, lines 303-308.
ClearEffect(prevState, loc) ==
    IF ~loc.hasState THEN << >> ELSE prevState

\* setChat, lines 243-248, run by the effect of lines 313-315.
setChatAppends(prevState, loc) ==
    IF loc.hasState THEN prevState \o loc.chatHistory ELSE prevState

setChat(prevState, loc) ==
    IF loc.hasState THEN loc.chatHistory ELSE prevState

\* The sessionId effect, lines 330-334.
SessionEffectUnguarded(stored, d) ==
    IF d.present /\ d.sessionId # stored THEN d.sessionId ELSE stored

SessionEffect(stored, d) ==
    IF d.sessionId # "" /\ d.sessionId # stored THEN d.sessionId ELSE stored

\* The effects of one commit, in the order the component declares them.
\* Their state updates are batched: pushChatHistory's updater, then the
\* setChatHistory calls of the clear effect and of setChat.
ChatAfterEffects(rendered, d, loc) ==
    setChat(ClearEffect(ResponseEffect(rendered, d), loc), loc)

\* The hidden input of line 397.
SessionField == IF sessionId = Null THEN "" ELSE sessionId

----------------------------------------------------------------------------
(* Measurements window.getComputedStyle and scrollHeight can give *)

LineHeights == {2, 3}

Paddings == {0, 1}

ScrollHeights == 0 .. MaxScrollHeight

----------------------------------------------------------------------------
(* The state after the view is first loaded: a fresh history entry, no
   action data, the clear effect run. *)

NoServed ==
    [req |-> [message |-> << >>, sessionId |-> ""],
     outcome |-> [ok |-> TRUE, text |-> << >>, sid |-> "",
                  errorMessage |-> << >>]]

NoSubmission ==
    [before |-> << >>, message |-> << >>, sessionId |-> "", retryOf |-> Null]

NoIntegration ==
    [result |-> NoData, before |-> << >>, sessionBefore |-> Null,
     request |-> [message |-> << >>, sessionId |-> ""]]

Init ==
    /\ chatHistory = << >>
    /\ sessionId = Null
    /\ data = NoData
    /\ navigation = "idle"
    /\ entries = << NoState >>
    /\ idx = 1
    /\ pendingNav = NoNav
    /\ requests = << >>
    /\ result = NoData
    /\ textarea = [value |-> << >>, rows |-> minTextareaRows]
    /\ lastOp = "load"
    /\ served = NoServed
    /\ submitted = NoSubmission
    /\ integrated = NoIntegration
    /\ failedSession = Null

----------------------------------------------------------------------------
(* Operations *)

\* The user edits the textarea: onChange, lines 128-157. A disabled
\* textarea (line 390) takes no input.
handleTextareaChange ==
    /\ ~isSubmitting
    /\ \E rows \in { RowsAfterChange(sh, lh, pt, pb) :
                         sh \in ScrollHeights, lh \in LineHeights,
                         pt \in Paddings, pb \in Paddings } :
          \E v \in Messages : textarea' = [value |-> v, rows |-> rows]
    /\ lastOp' = "change"
    /\ integrated' = NoIntegration
    /\ UNCHANGED << chatHistory, sessionId, data, navigation, entries, idx,
                    pendingNav, requests, result, served, submitted,
                    failedSession >>

\* What both submission paths share: the user turn is saved, the form's
\* fields travel to the action (useSubmit / <Form replace>), the navigation
\* turns "submitting" and the focus effect of lines 254-265 empties the
\* textarea. A navigation still pending is interrupted.
Submit(message) ==
    /\ Len(chatHistory) + 2 <= MaxTurns
    /\ idx < MaxHistory
    /\ chatHistory' = saveUserMessage(chatHistory, message)
    /\ requests' = Append(requests,
                          [message |-> message, sessionId |-> SessionField])
    /\ navigation' = "submitting"
    /\ pendingNav' = NoNav
    /\ result' = NoData
    /\ textarea' = [value |-> << >>, rows |-> 1]
    /\ submitted' =
          [before |-> chatHistory, message |-> message,
           sessionId |-> SessionField, retryOf |-> failedSession]
    /\ integrated' = NoIntegration
    /\ UNCHANGED << sessionId, data, entries, idx, served, failedSession >>

\* The submit button, lines 185-190 and 398-406. The browser fires the
\* form's submit event only when the button is enabled and the textarea is
\* valid (required, minLength, lines 386-389).
handleFormSubmit ==
    /\ ~isSubmitting
    /\ Len(textarea.value) >= minLength
    /\ Submit(textarea.value)
    /\ lastOp' = "submit"

\* A key pressed in the textarea, lines 198-208.
submitFormOnEnter ==
    /\ ~isSubmitting
    /\ \E key \in {"Enter", "a"}, shiftKey \in BOOLEAN :
          IF key = "Enter" /\ ~shiftKey /\ Len(trim(textarea.value)) > 2
          THEN /\ Submit(textarea.value)
               /\ lastOp' = "enter"
          ELSE UNCHANGED vars

\* The server runs the action on a request, lines 38-104.
HandlerReturns ==
    /\ requests # << >>
    /\ ~result.present
    /\ \E outcome \in ServiceOutcomes :
          /\ result' = action(Head(requests), outcome)
          /\ served' = [req |-> Head(requests), outcome |-> outcome]
    /\ requests' = Tail(requests)
    /\ lastOp' = "action"
    /\ UNCHANGED << chatHistory, sessionId, data, navigation, entries, idx,
                    pendingNav, textarea, submitted, integrated,
                    failedSession >>

\* The action's result reaches the view. The submission's navigation
\* commits: it replaces the current history entry by one without state
\* (neither <Form replace> nor submit(form, {replace: true}) passes a
\* state), useActionData() returns the result, and the effects run.
IntegrateResult ==
    /\ isSubmitting
    /\ result.present
    /\ data' = result
    /\ result' = NoData
    /\ entries' = [entries EXCEPT ![idx] = NoState]
    /\ idx' = idx
    /\ chatHistory' = ChatAfterEffects(chatHistory, result, NoState)
    /\ pendingNav' = ResponseNavigate(chatHistory, result)
    /\ navigation' = IF ResponseNavigate(chatHistory, result).pending
                      THEN "loading" ELSE "idle"
    /\ sessionId' = SessionEffect(sessionId, result)
    /\ integrated' = [result |-> result, before |-> chatHistory,
                      sessionBefore |-> sessionId, request |-> served.req]
    /\ failedSession' = IF result.error # << >>
                         THEN served.req.sessionId ELSE Null
    /\ served' = NoServed
    /\ submitted' = NoSubmission
    /\ lastOp' = "integrate"
    /\ UNCHANGED << requests, textarea >>

\* The navigation asked for on line 291 commits: a new history entry with
\* the state passed, no action data any more, and the effects run.
CompleteNavigate ==
    /\ pendingNav.pending
    /\ entries' = Append(SubSeq(entries, 1, idx), pendingNav.state)
    /\ idx' = idx + 1
    /\ data' = NoData
    /\ navigation' = "idle"
    /\ pendingNav' = NoNav
    /\ chatHistory' = ChatAfterEffects(chatHistory, NoData, pendingNav.state)
    /\ sessionId' = SessionEffect(sessionId, NoData)
    /\ lastOp' = "navigate"
    /\ UNCHANGED << requests, result, textarea, served, submitted,
                    integrated, failedSession >>

\* The browser's back or forward button. It interrupts a submission or a
\* navigation under way, and the location it reaches carries no action data.
Traverse ==
    /\ \E d \in {-1, 1} :
          /\ idx + d \in 1 .. Len(entries)
          /\ idx' = idx + d
          /\ chatHistory' = ChatAfterEffects(chatHistory, NoData,
                                             entries[idx + d])
    /\ data' = NoData
    /\ navigation' = "idle"
    /\ pendingNav' = NoNav
    /\ requests' = << >>
    /\ result' = NoData
    /\ sessionId' = SessionEffect(sessionId, NoData)
    /\ lastOp' = "traverse"
    /\ served' = NoServed
    /\ submitted' = NoSubmission
    /\ integrated' = NoIntegration
    /\ UNCHANGED << entries, textarea, failedSession >>

\* The page is loaded again at the current history entry: the component
\* mounts with its initial state (lines 116-117) and the effects run.
Reload ==
    /\ chatHistory' = ChatAfterEffects(<< >>, NoData, location)
    /\ sessionId' = SessionEffect(Null, NoData)
    /\ data' = NoData
    /\ navigation' = "idle"
    /\ pendingNav' = NoNav
    /\ requests' = << >>
    /\ result' = NoData
    /\ textarea' = [value |-> << >>, rows |-> 1]
    /\ lastOp' = "reload"
    /\ served' = NoServed
    /\ submitted' = NoSubmission
    /\ integrated' = NoIntegration
    /\ failedSession' = Null
    /\ UNCHANGED << entries, idx >>

Next ==
    \/ handleTextareaChange
    \/ handleFormSubmit
    \/ submitFormOnEnter
    \/ HandlerReturns
    \/ IntegrateResult
    \/ CompleteNavigate
    \/ Traverse
    \/ Reload

Spec == Init /\ [][Next]_vars

----------------------------------------------------------------------------
(* Properties *)

\* The view is at rest after the last result: its effects have run and the
\* navigation they asked for, if any, has committed.
Settled ==
    /\ lastOp \in {"integrate", "navigate"}
    /\ ~pendingNav.pending

InFlight == Len(requests) + (IF result.present THEN 1 ELSE 0)

\* C1: once the view has settled after a success result (no error), the
\* displayed transcript is the transcript the result found followed by
\* exactly one assistant turn, not error-flagged, whose content is the
\* returned answer, for every returned answer.
SuccessAppendsAnswer ==
    (Settled /\ integrated.result.present /\ integrated.result.error = << >>)
        => chatHistory = Append(integrated.before,
                                AssistantTurn(integrated.result.answer))

\* C2: once the view has settled after a failure result, the displayed
\* transcript is the transcript the result found followed by exactly one
\* assistant turn flagged error whose content is the returned error message.
FailureAppendsErrorTurn ==
    (Settled /\ integrated.result.error # << >>)
        => chatHistory = Append(integrated.before,
                                ErrorTurn(integrated.result.error))

\* C3: while a submission whose message has trimmed length > 2 is pending,
\* from the submit up to the integration of the handler's result, the
\* transcript is the one the submission found followed by exactly one user
\* turn whose content is the submitted message, and that message is the one
\* sent to the handler.
UserTurnBeforeResult ==
    (isSubmitting /\ Len(trim(submitted.message)) > 2)
        => /\ chatHistory = Append(submitted.before,
                                   UserTurn(submitted.message))
           /\ \A i \in 1 .. Len(requests) :
                  requests[i].message = submitted.message
           /\ result.present => result.message = submitted.message

UserTurnBeforeResultWitness ==
    /\ isSubmitting
    /\ result.present
    /\ Len(trim(submitted.message)) > 2
    /\ submitted.message # trim(submitted.message)
    /\ submitted.before # << >>

\* C4: after a result is integrated the stored session identifier is the
\* result's when that is non-empty and differs from the stored one, and is
\* otherwise unchanged; a failure leaves it unchanged, and the submission
\* that follows a failure carries the identifier the failed one carried.
SessionIdUpdatedOnlyByNewId ==
    /\ lastOp = "integrate" =>
          /\ sessionId =
                IF /\ integrated.result.sessionId # ""
                   /\ integrated.result.sessionId # integrated.sessionBefore
                THEN integrated.result.sessionId
                ELSE integrated.sessionBefore
          /\ integrated.result.error # << >>
                => sessionId = integrated.sessionBefore
    /\ (isSubmitting /\ submitted.retryOf # Null)
          => submitted.sessionId = submitted.retryOf

SessionIdWitness ==
    /\ isSubmitting
    /\ submitted.retryOf \in SessionIds

\* C5: once the view has settled after any result, success or failure, the
\* transcript in the location's navigation state equals the displayed
\* transcript, which ends with the assistant turn the result brought.
NavigationStateHoldsTranscript ==
    (Settled /\ integrated.result.present)
        => /\ location.hasState
           /\ location.chatHistory = chatHistory
           /\ chatHistory # << >>
           /\ chatHistory[Len(chatHistory)].role = "assistant"

\* C6: after the view loads at, or history is traversed to, a location whose
\* navigation state holds a transcript, the displayed transcript is exactly
\* that transcript.
TranscriptRestored ==
    (lastOp \in {"traverse", "reload"} /\ location.hasState)
        => chatHistory = location.chatHistory

TranscriptRestoredWitness ==
    /\ lastOp = "traverse"
    /\ location.hasState
    /\ Len(chatHistory) = 4

\* C7: when the call to the external service fails, the handler returns a
\* non-empty error message (the error's, or the fallback text when it has
\* none), an empty answer, and the session identifier of the request.
FailureResultShape ==
    (result.present /\ ~served.outcome.ok)
        => /\ result.error # << >>
           /\ result.error = IF served.outcome.errorMessage # << >>
                             THEN served.outcome.errorMessage
                             ELSE FallbackError
           /\ result.answer = << >>
           /\ result.sessionId = served.req.sessionId

FailureResultWitness ==
    /\ result.present
    /\ ~served.outcome.ok
    /\ served.outcome.errorMessage = << >>
    /\ served.req.sessionId \in SessionIds

\* C8: at most one request to the handler is in flight, and while a
\* submission is pending exactly one is, with exactly the one user turn of
\* that submission added to the transcript.
OneRequestInFlight ==
    /\ InFlight <= 1
    /\ isSubmitting =>
          /\ InFlight = 1
          /\ Len(chatHistory) = Len(submitted.before) + 1

OneRequestInFlightWitness ==
    /\ isSubmitting
    /\ Len(requests) = 1
    /\ Len(chatHistory) = 3

\* C9: the displayed transcript never has two assistant turns in a row and,
\* when it is not empty, begins with a user turn.
NoConsecutiveAssistantTurns ==
    \A i \in 1 .. Len(chatHistory) :
        /\ chatHistory[i].role \in {"user", "assistant"}
        /\ chatHistory[i].role = "assistant"
              => (i > 1 /\ chatHistory[i - 1].role = "user")

AlternationWitness ==
    /\ Len(chatHistory) = 4
    /\ lastOp = "navigate"

\* C10: after every input change, whatever the measured scroll height,
\* paddings and line height, the textarea's row count is between 1 and 3.
RowsWithinBounds ==
    lastOp = "change" => textarea.rows \in 1 .. 3

RowsWitness ==
    /\ lastOp = "change"
    /\ textarea.rows = maxTextareaRows

\* C11: whenever the view comes to a location that carries no navigation
\* state (on first load, on reload, after a back or forward step, or when a
\* submission's navigation commits), the clear effect leaves the displayed
\* transcript empty; a view loaded without navigation state starts empty.
ClearedWithoutState ==
    (lastOp \in {"load", "reload", "traverse", "integrate"}
     /\ ~location.hasState)
        => chatHistory = << >>

ClearedWithoutStateWitness ==
    /\ lastOp = "traverse"
    /\ ~location.hasState
    /\ idx < Len(entries)
    /\ entries[idx + 1].hasState
    /\ chatHistory = << >>

====
